---- MODULE Spec2Model ----
(***************************************************************************)
(* Model of tools/validation_checks.py: the visual validator               *)
(* (validate_visual_annotations), the text validator                       *)
(* (validate_text_annotations) and the script entry point that calls both. *)
(*                                                                         *)
(* Python values are modelled as follows.                                  *)
(*  - A value that may be None is a sequence of length <= 1: <<>> is None  *)
(*    and <<v>> is v.                                                      *)
(*  - A str that the code inspects character by character (a category      *)
(*    name) is a sequence of one-character strings.                        *)
(*  - A cell of the data frame is a string; a null cell (NaN) is NA.       *)
(*  - area, width, height and the bbox components are integers.  On        *)
(*    integers of the magnitude used here the float expression             *)
(*    (area / img_area) * 100 < 1 equals area * 100 < img_area, and        *)
(*    likewise for > 50 and for max_count / min_count > 3.                 *)
(***************************************************************************)
EXTENDS Integers, Sequences, FiniteSets

VARIABLES
    visual_file,        \* what open()/json.load() find at the visual path
    text_file,          \* what pd.read_csv() finds at the text path
    pc,                 \* position in the __main__ block
    visual_results,     \* __main__: visual_results (None or dict)
    text_results,       \* __main__: text_results (None or dict)
    issues,             \* validate_visual_annotations: issues
    text_out,           \* what validate_text_annotations printed
    caught,             \* which except-branches of __main__ ran
    reported            \* which result sections __main__ printed

vars == <<visual_file, text_file, pc, visual_results, text_results,
          issues, text_out, caught, reported>>

----------------------------------------------------------------------------
(* Bounds of the explored inputs *)

MaxImages == 2

MaxAnns == 2

MaxAreaAnns == 2

MaxCats == 2

MaxBgAnns == 2

MaxRows == 2

MaxIntentRows == 5

----------------------------------------------------------------------------
(* Generic helpers *)

None == <<>>

Some(v) == <<v>>

NA == "NaN"

SeqsUpTo(S, n) == UNION {[1..k -> S] : k \in 0..n}

RECURSIVE SumOver(_, _)
SumOver(f, S) ==
    IF S = {} THEN 0
    ELSE LET v == CHOOSE v \in S : TRUE IN f[v] + SumOver(f, S \ {v})

RECURSIVE Concat(_)
Concat(ss) == IF ss = <<>> THEN <<>> ELSE ss[1] \o Concat(Tail(ss))

----------------------------------------------------------------------------
(* validate_visual_annotations *)

\* next((img for img in images if img['id'] == image_id), None)
FindImageLast(images, image_id) ==
    LET hits == {i \in DOMAIN images : images[i].id = image_id}
    IN  IF hits = {} THEN None
        ELSE Some(images[CHOOSE i \in hits : \A j \in hits : j <= i])

FindImage(images, image_id) ==
    LET hits == {i \in DOMAIN images : images[i].id = image_id}
    IN  IF hits = {} THEN None
        ELSE Some(images[CHOOSE i \in hits : \A j \in hits : i <= j])

\* if w <= 0 or h <= 0
InvalidDimsStrict(w, h) == w < 0 \/ h < 0

InvalidDims(w, h) == w <= 0 \/ h <= 0

\* if x + w > img['width'] or y + h > img['height']
ExceedsBounds(x, y, w, h, img) == x + w > img.width \/ y + h > img.height

Issue(kind, ann_id, args) == [kind |-> kind, ann_id |-> ann_id, args |-> args]

\* the issues one iteration of the check 1 loop appends, with the negative
\* coordinate test moved out of the "if img:" block
AnnIssuesUnguarded(ann, images) ==
    LET bbox == ann.bbox
    IN  IF Len(bbox) # 4
        THEN <<Issue("Invalid bbox format", ann.id, <<>>)>>
        ELSE
          LET x == bbox[1]
              y == bbox[2]
              w == bbox[3]
              h == bbox[4]
              img == FindImage(images, ann.image_id)
          IN  (IF InvalidDims(w, h)
                 THEN <<Issue("Invalid bbox dimensions", ann.id, <<w, h>>)>>
                 ELSE <<>>)
              \o (IF x < 0 \/ y < 0
                    THEN <<Issue("Negative coordinates", ann.id, <<x, y>>)>>
                    ELSE <<>>)
              \o (IF img # None /\ ExceedsBounds(x, y, w, h, img[1])
                    THEN <<Issue("Bbox exceeds image bounds", ann.id, <<>>)>>
                    ELSE <<>>)

\* the issues one iteration of the check 1 loop appends
AnnIssues(ann, images) ==
    LET bbox == ann.bbox
    IN  IF Len(bbox) # 4
        THEN <<Issue("Invalid bbox format", ann.id, <<>>)>>
        ELSE
          LET x == bbox[1]
              y == bbox[2]
              w == bbox[3]
              h == bbox[4]
              img == FindImage(images, ann.image_id)
          IN  (IF InvalidDims(w, h)
                 THEN <<Issue("Invalid bbox dimensions", ann.id, <<w, h>>)>>
                 ELSE <<>>)
              \o (IF img # None /\ (x < 0 \/ y < 0)
                    THEN <<Issue("Negative coordinates", ann.id, <<x, y>>)>>
                    ELSE <<>>)
              \o (IF img # None /\ ExceedsBounds(x, y, w, h, img[1])
                    THEN <<Issue("Bbox exceeds image bounds", ann.id, <<>>)>>
                    ELSE <<>>)

\* Check 1: the loop over annotations
Check1(images, annotations) ==
    Concat([i \in DOMAIN annotations |-> AnnIssues(annotations[i], images)])

\* relative_area < 1 with relative_area = (area / img_area) * 100
IsSmallInclusive(area, img) == area * 100 <= img.width * img.height

IsSmall(area, img) == area * 100 < img.width * img.height

\* Check 2: small_objects, as the positions of the annotations collected
Check2(images, annotations) ==
    {i \in DOMAIN annotations :
        LET img == FindImage(images, annotations[i].image_id)
        IN  img # None /\ IsSmall(annotations[i].area, img[1])}

\* relative_area > 50
IsLarge(area, img) == area * 100 > 50 * (img.width * img.height)

\* 'background' in cat['name'].lower()
UpperCase == <<"A", "B", "C", "D", "E", "F", "G", "H", "I", "J", "K", "L", "M",
               "N", "O", "P", "Q", "R", "S", "T", "U", "V", "W", "X", "Y", "Z">>

LowerCase == <<"a", "b", "c", "d", "e", "f", "g", "h", "i", "j", "k", "l", "m",
               "n", "o", "p", "q", "r", "s", "t", "u", "v", "w", "x", "y", "z">>

LowerChar(c) ==
    IF \E i \in DOMAIN UpperCase : UpperCase[i] = c
    THEN LowerCase[CHOOSE i \in DOMAIN UpperCase : UpperCase[i] = c]
    ELSE c

Lower(s) == [i \in DOMAIN s |-> LowerChar(s[i])]

Contains(sub, s) ==
    \E k \in 0..(Len(s) - Len(sub)) : SubSeq(s, k + 1, k + Len(sub)) = sub

Background == <<"b", "a", "c", "k", "g", "r", "o", "u", "n", "d">>

IsBackgroundName(name) == Contains(Background, Lower(name))

\* the "Find background category" loop: background_cat_id
BackgroundCatId(categories) ==
    LET hits == {i \in DOMAIN categories : IsBackgroundName(categories[i].name)}
    IN  IF hits = {} THEN None
        ELSE Some(categories[CHOOSE i \in hits : \A j \in hits : i <= j].id)

\* truth value of "if background_cat_id:" (None and 0 are both false)
BackgroundTruthy(background_cat_id) ==
    background_cat_id # None /\ background_cat_id[1] # 0

\* Check 3: large_boxes, as the positions of the annotations collected
Check3(images, annotations, categories) ==
    LET background_cat_id == BackgroundCatId(categories)
    IN  IF BackgroundTruthy(background_cat_id)
        THEN {i \in DOMAIN annotations :
                /\ annotations[i].category_id = background_cat_id[1]
                /\ LET img == FindImage(images, annotations[i].image_id)
                   IN  img # None /\ IsLarge(annotations[i].area, img[1])}
        ELSE {}

\* Check 4 with the image kept only when an annotation with a well-formed
\* bbox references it
Check4ValidOnly(images, annotations) ==
    {k \in DOMAIN images :
        {i \in DOMAIN annotations :
            /\ annotations[i].image_id = images[k].id
            /\ Len(annotations[i].bbox) = 4} = {}}

\* Check 4: images_without_annotations, as positions in the image sequence
Check4(images, annotations) ==
    {k \in DOMAIN images :
        {i \in DOMAIN annotations : annotations[i].image_id = images[k].id} = {}}

\* the results dict
VisualResults(images, annotations, categories) ==
    [total_images |-> Len(images),
     total_annotations |-> Len(annotations),
     critical_issues |-> Len(Check1(images, annotations)),
     small_objects |-> Cardinality(Check2(images, annotations)),
     large_backgrounds |-> Cardinality(Check3(images, annotations, categories)),
     images_without_annotations |-> Cardinality(Check4(images, annotations))]

\* outcome of a call validate_visual_annotations(visual_file):
\* FileNotFoundError and JSONDecodeError return None, any other error of
\* open()/json.load() propagates, otherwise the results dict is returned
ValidateVisual(f) ==
    CASE f.status \in {"FileNotFoundError", "JSONDecodeError"} ->
            [raised |-> FALSE, ret |-> None, issues |-> <<>>]
      [] f.status = "OSError" ->
            [raised |-> TRUE, ret |-> None, issues |-> <<>>]
      [] OTHER ->
            [raised |-> FALSE,
             ret |-> Some(VisualResults(f.images, f.annotations, f.categories)),
             issues |-> Check1(f.images, f.annotations)]

----------------------------------------------------------------------------
(* validate_text_annotations *)

required_cols == <<"id", "text", "intent", "confidence">>

\* [col for col in required_cols if col not in df.columns]
MissingCols(columns) == SelectSeq(required_cols, LAMBDA col : col \notin columns)

\* df.isnull().sum(): per column of the frame, the number of null cells
EmptyCounts(columns, rows) ==
    [col \in columns |-> Cardinality({i \in DOMAIN rows : rows[i][col] = NA})]

\* df[col].value_counts(): one group per distinct non-null value, with its
\* number of rows (null cells are dropped; the order of the groups only
\* orders the printed lines)
ValueCounts(rows, col) ==
    LET vals == {rows[i][col] : i \in DOMAIN rows} \ {NA}
    IN  [v \in vals |-> Cardinality({i \in DOMAIN rows : rows[i][col] = v})]

MaxCount(counts) ==
    CHOOSE m \in {counts[v] : v \in DOMAIN counts} :
        \A v \in DOMAIN counts : counts[v] <= m

MinCount(counts) ==
    CHOOSE m \in {counts[v] : v \in DOMAIN counts} :
        \A v \in DOMAIN counts : m <= counts[v]

\* max_count / min_count > 3
RatioOver3Inclusive(max_count, min_count) == max_count >= 3 * min_count

RatioOver3(max_count, min_count) == max_count > 3 * min_count

\* the line check 3 prints; max() and min() of an empty Series are NaN and
\* NaN / NaN > 3 is false
ImbalanceLine(intent_counts) ==
    IF DOMAIN intent_counts # {}
       /\ RatioOver3(MaxCount(intent_counts), MinCount(intent_counts))
    THEN "Class imbalance detected"
    ELSE "Balanced distribution"

\* len(df[df['confidence'] == 'low'])
LowConfidence(rows) ==
    Cardinality({i \in DOMAIN rows : rows[i]["confidence"] = "low"})

NothingPrinted ==
    [missing_cols |-> None, empty_values |-> None, intent_counts |-> None,
     imbalance |-> None, confidence_counts |-> None, low_flag |-> None]

\* outcome of a call validate_text_annotations(text_file): ImportError and
\* FileNotFoundError return None, any other error of pd.read_csv propagates,
\* and df['intent'] / df['confidence'] raise KeyError when the column is
\* absent, after everything before them was printed
ValidateText(f) ==
    LET check12 ==
            [NothingPrinted EXCEPT
                !.missing_cols = Some(MissingCols(f.columns)),
                !.empty_values =
                    Some(SumOver(EmptyCounts(f.columns, f.rows), f.columns))]
        intent_counts == ValueCounts(f.rows, "intent")
        check3 ==
            [check12 EXCEPT
                !.intent_counts = Some(intent_counts),
                !.imbalance = Some(ImbalanceLine(intent_counts))]
        low_confidence == LowConfidence(f.rows)
        check4 ==
            [check3 EXCEPT
                !.confidence_counts = Some(ValueCounts(f.rows, "confidence")),
                !.low_flag = Some(low_confidence * 10 > Len(f.rows))]
    IN  CASE f.status \in {"ImportError", "FileNotFoundError"} ->
                [raised |-> FALSE, ret |-> None, out |-> NothingPrinted]
          [] f.status = "ParserError" ->
                [raised |-> TRUE, ret |-> None, out |-> NothingPrinted]
          [] f.status = "ok" /\ "intent" \notin f.columns ->
                [raised |-> TRUE, ret |-> None, out |-> check12]
          [] f.status = "ok" /\ "intent" \in f.columns
                             /\ "confidence" \notin f.columns ->
                [raised |-> TRUE, ret |-> None, out |-> check3]
          [] OTHER ->
                [raised |-> FALSE,
                 ret |-> Some([total_annotations |-> Len(f.rows),
                               unique_intents |->
                                   Cardinality(DOMAIN intent_counts),
                               empty_values |-> check12.empty_values[1],
                               low_confidence_count |-> low_confidence]),
                 out |-> check4]

----------------------------------------------------------------------------
(* The script entry point (if __name__ == "__main__") *)

\* "if visual_results:" / "if text_results:": None is false, a results dict
\* (never empty) is true
Truthy(results) == results # None

\* where control goes when the call in a try block raised: the handler
\* "except Exception" swallows the error and the script goes on
AfterCallPropagating(raised, next) == IF raised THEN "aborted" ELSE next

AfterCall(raised, next) == next

\* visual_results = None; try: visual_results = validate_visual_annotations(...)
RunVisual ==
    /\ pc = "visual"
    /\ LET r == ValidateVisual(visual_file)
       IN  /\ visual_results' = r.ret
           /\ issues' = r.issues
           /\ caught' = [caught EXCEPT !.visual = r.raised]
           /\ pc' = AfterCall(r.raised, "text")
    /\ UNCHANGED <<visual_file, text_file, text_results, text_out, reported>>

\* text_results = None; try: text_results = validate_text_annotations(...)
RunText ==
    /\ pc = "text"
    /\ LET r == ValidateText(text_file)
       IN  /\ text_results' = r.ret
           /\ text_out' = r.out
           /\ caught' = [caught EXCEPT !.text = r.raised]
           /\ pc' = AfterCall(r.raised, "report")
    /\ UNCHANGED <<visual_file, text_file, visual_results, issues, reported>>

\* which result sections the final block prints
ReportOf(v, t) ==
    [visual |-> Truthy(v), text |-> Truthy(t), complete |-> TRUE]

\* "OVERALL VALIDATION COMPLETE" ... "Validation complete!"
Report ==
    /\ pc = "report"
    /\ reported' = ReportOf(visual_results, text_results)
    /\ pc' = "done"
    /\ UNCHANGED <<visual_file, text_file, visual_results, text_results,
                   issues, text_out, caught>>

Next == RunVisual \/ RunText \/ Report

----------------------------------------------------------------------------
(* Inputs *)

\* annotations get their position as id
WithIds(shapes) ==
    [i \in DOMAIN shapes |->
        [id |-> i, image_id |-> shapes[i].image_id,
         category_id |-> shapes[i].category_id,
         bbox |-> shapes[i].bbox, area |-> shapes[i].area]]

Img(id, w, h) == [id |-> id, width |-> w, height |-> h]

Images == {Img(1, 10, 10), Img(1, 10, 20), Img(2, 10, 10)}

BBoxes ==
    {<<0, 5, 10, 5>>, <<5, 5, 6, 5>>, <<5, 5, 5, 6>>, <<-1, 5, 5, 5>>,
     <<5, -1, 5, 5>>, <<5, 5, 0, 5>>, <<5, 5, 6, -1>>, <<5, 5, 5>>}

Cat(id, name) == [id |-> id, name |-> name]

CatNames ==
    {Background,
     <<"S", "k", "y", "_", "B", "A", "C", "K", "G", "r", "o", "u", "n", "d">>,
     <<"b", "a", "c", "k", "p", "a", "c", "k">>}

Row(id, text, intent, confidence) ==
    [id |-> id, text |-> text, intent |-> intent, confidence |-> confidence]

VisualFile(status, images, shapes, categories) ==
    [status |-> status, images |-> images, annotations |-> WithIds(shapes),
     categories |-> categories]

TextFile(status, columns, rows) ==
    [status |-> status, columns |-> columns, rows |-> rows]

DefaultVisual ==
    VisualFile("ok", <<Img(1, 10, 10)>>, <<>>, <<>>)

DefaultText ==
    TextFile("ok", {"id", "text", "intent", "confidence"},
             <<Row("1", "t", "a", "high")>>)

InitRest ==
    /\ pc = "visual"
    /\ visual_results = None
    /\ text_results = None
    /\ issues = <<>>
    /\ text_out = NothingPrinted
    /\ caught = [visual |-> FALSE, text |-> FALSE]
    /\ reported = [visual |-> FALSE, text |-> FALSE, complete |-> FALSE]

\* bounding boxes and image references vary
InitBbox ==
    /\ \E images \in SeqsUpTo(Images, MaxImages) :
       \E shapes \in SeqsUpTo([image_id : {1, 2}, category_id : {1},
                               bbox : BBoxes, area : {1}], MaxAnns) :
          visual_file = VisualFile("ok", images, shapes, <<>>)
    /\ text_file = DefaultText
    /\ InitRest

\* areas and image references vary
InitArea ==
    /\ \E images \in SeqsUpTo(Images, MaxImages) :
       \E shapes \in SeqsUpTo([image_id : {1, 2}, category_id : {1},
                               bbox : {<<0, 0, 5, 5>>, <<5, 5, 6, -1>>, <<>>},
                               area : {0, 1, 2}], MaxAreaAnns) :
          visual_file = VisualFile("ok", images, shapes, <<>>)
    /\ text_file = DefaultText
    /\ InitRest

\* categories vary
InitBackground ==
    /\ \E categories \in SeqsUpTo({Cat(id, name) : id \in {0, 1},
                                                   name \in CatNames}, MaxCats) :
       \E shapes \in SeqsUpTo([image_id : {1, 2}, category_id : {0, 1},
                               bbox : {<<0, 0, 5, 5>>},
                               area : {50, 51}], MaxBgAnns) :
          visual_file = VisualFile("ok", <<Img(1, 10, 10)>>, shapes, categories)
    /\ text_file = DefaultText
    /\ InitRest

\* columns and cells vary; a column the frame lacks has no cells
InitText ==
    /\ visual_file = DefaultVisual
    /\ \E columns \in SUBSET {"id", "text", "intent", "confidence"} :
       \E rows \in SeqsUpTo([id : {"1", NA}, text : {"t", NA},
                             intent : {"a", "b", NA},
                             confidence : {"low", "high", NA}], MaxRows) :
          /\ \A i \in DOMAIN rows :
                \A col \in {"id", "text", "intent", "confidence"} \ columns :
                    rows[i][col] = NA
          /\ text_file = TextFile("ok", columns, rows)
    /\ InitRest

\* intents vary
InitIntent ==
    /\ visual_file = DefaultVisual
    /\ \E rows \in SeqsUpTo([id : {"1"}, text : {"t"},
                             intent : {"a", "b", "c", NA},
                             confidence : {"high"}], MaxIntentRows) :
          text_file = TextFile("ok", {"id", "text", "intent", "confidence"}, rows)
    /\ InitRest

\* what the two paths hold varies
InitMain ==
    /\ \/ \E status \in {"FileNotFoundError", "JSONDecodeError", "OSError"} :
             visual_file = VisualFile(status, <<>>, <<>>, <<>>)
       \/ \E images \in SeqsUpTo({Img(1, 10, 10)}, 1) :
          \E shapes \in SeqsUpTo([image_id : {1}, category_id : {1},
                                  bbox : {<<0, 0, 5, 5>>, <<5, 5, 6, 0>>},
                                  area : {1}], 1) :
             visual_file = VisualFile("ok", images, shapes, <<>>)
    /\ \/ \E status \in {"FileNotFoundError", "ImportError", "ParserError"} :
             text_file = TextFile(status, {}, <<>>)
       \/ \E columns \in {{"id", "text", "intent", "confidence"},
                          {"id", "text", "confidence"}, {"id", "text", "intent"}} :
          \E rows \in SeqsUpTo({Row("1", "t", "a", "low")}, 1) :
             text_file =
                TextFile("ok", columns,
                         [i \in DOMAIN rows |->
                            [col \in {"id", "text", "intent", "confidence"} |->
                                IF col \in columns THEN rows[i][col] ELSE NA]])
    /\ InitRest

SpecBbox == InitBbox /\ [][Next]_vars

SpecArea == InitArea /\ [][Next]_vars

SpecBackground == InitBackground /\ [][Next]_vars

SpecText == InitText /\ [][Next]_vars

SpecIntent == InitIntent /\ [][Next]_vars

\* the interpreter runs the script to its end: every step that can be taken is
SpecMain == InitMain /\ [][Next]_vars /\ WF_vars(Next)

----------------------------------------------------------------------------
(* Properties *)

images == visual_file.images

annotations == visual_file.annotations

categories == visual_file.categories

rows == text_file.rows

\* the visual validator has run to its end on a loaded dataset
VisualRan == pc # "visual" /\ visual_file.status = "ok"

\* the text validator has been called
TextCalled == pc \in {"report", "done"}

Resolves(ann) == \E k \in DOMAIN images : images[k].id = ann.image_id

\* images[k] is the first image in sequence with the annotation's image_id
FirstMatch(ann, k) ==
    /\ images[k].id = ann.image_id
    /\ \A j \in 1..(k - 1) : images[j].id # ann.image_id

IssueCount(kind, ann) ==
    Cardinality({n \in DOMAIN issues :
                    issues[n].kind = kind /\ issues[n].ann_id = ann.id})

HasBbox4(ann) == Len(ann.bbox) = 4

\* C1: when some category's lower-cased name contains "background",
\* large_backgrounds is the number of annotations of the first such category
\* whose image resolves and whose area is over 50% of that image, whatever
\* integer the category's id is; with no such category it is 0.
C1_LargeBackgrounds ==
    VisualRan =>
        LET bg == {c \in DOMAIN categories :
                      IsBackgroundName(categories[c].name)}
        IN  IF bg = {}
            THEN visual_results[1].large_backgrounds = 0
            ELSE
              LET first == CHOOSE c \in bg : \A d \in bg : c <= d
              IN  visual_results[1].large_backgrounds =
                    Cardinality(
                      {i \in DOMAIN annotations :
                          /\ annotations[i].category_id = categories[first].id
                          /\ \E k \in DOMAIN images :
                                /\ FirstMatch(annotations[i], k)
                                /\ annotations[i].area * 100 >
                                     50 * (images[k].width * images[k].height)})

\* C2: a record set lacking required columns still gets its missing columns
\* reported, the remaining checks run and the call returns a summary
\* without raising.
C2_MissingColumnsNotFatal ==
    (TextCalled /\ text_file.status = "ok"
        /\ {"id", "text", "intent", "confidence"} \ text_file.columns # {}) =>
        /\ text_out.missing_cols # None
        /\ text_out.intent_counts # None
        /\ text_out.confidence_counts # None
        /\ ~caught.text
        /\ text_results # None

\* C3: for a record set with at least one row, null cells included, the
\* intent group counts sum to the row count, and so do the confidence
\* group counts.
C3_GroupCountsSumToTotal ==
    (TextCalled /\ text_results # None /\ Len(rows) >= 1) =>
        /\ SumOver(text_out.intent_counts[1],
                   DOMAIN text_out.intent_counts[1]) = Len(rows)
        /\ SumOver(text_out.confidence_counts[1],
                   DOMAIN text_out.confidence_counts[1]) = Len(rows)

\* C4: an annotation with a 4-component bbox gets the "Invalid bbox
\* dimensions" issue exactly once if w <= 0 or h <= 0 and never otherwise,
\* whether or not its image resolves.
C4_InvalidDimsExactlyOnce ==
    VisualRan =>
        \A i \in DOMAIN annotations :
            HasBbox4(annotations[i]) =>
                IssueCount("Invalid bbox dimensions", annotations[i]) =
                    IF annotations[i].bbox[3] <= 0 \/ annotations[i].bbox[4] <= 0
                    THEN 1 ELSE 0

\* an annotation with w <= 0 whose image does not resolve has its one
\* dimension issue, next to an annotation that raised two issues
C4_Witness ==
    /\ VisualRan
    /\ \E i, j \in DOMAIN annotations :
          /\ HasBbox4(annotations[i]) /\ annotations[i].bbox[3] <= 0
          /\ ~Resolves(annotations[i])
          /\ IssueCount("Invalid bbox dimensions", annotations[i]) = 1
          /\ HasBbox4(annotations[j]) /\ annotations[j].bbox[4] <= 0
          /\ IssueCount("Invalid bbox dimensions", annotations[j]) = 1
          /\ IssueCount("Negative coordinates", annotations[j])
               + IssueCount("Bbox exceeds image bounds", annotations[j]) >= 1

\* C5: an annotation with a 4-component bbox and x < 0 or y < 0 gets a
\* "Negative coordinates" issue iff some image has its image_id; an
\* annotation with no matching image gets neither that issue nor "Bbox
\* exceeds image bounds".
C5_NegativeIffResolved ==
    VisualRan =>
        \A i \in DOMAIN annotations :
            /\ (HasBbox4(annotations[i])
                  /\ (annotations[i].bbox[1] < 0 \/ annotations[i].bbox[2] < 0)) =>
                  (IssueCount("Negative coordinates", annotations[i]) >= 1
                      <=> Resolves(annotations[i]))
            /\ ~Resolves(annotations[i]) =>
                  /\ IssueCount("Negative coordinates", annotations[i]) = 0
                  /\ IssueCount("Bbox exceeds image bounds", annotations[i]) = 0

\* two annotations with a negative coordinate, one resolved and reported,
\* one unresolved and not reported
C5_Witness ==
    /\ VisualRan
    /\ \E i, j \in DOMAIN annotations :
          /\ HasBbox4(annotations[i]) /\ annotations[i].bbox[1] < 0
          /\ Resolves(annotations[i])
          /\ IssueCount("Negative coordinates", annotations[i]) = 1
          /\ HasBbox4(annotations[j]) /\ annotations[j].bbox[2] < 0
          /\ ~Resolves(annotations[j])
          /\ IssueCount("Negative coordinates", annotations[j]) = 0

\* C6: small_objects is the number of annotations whose image resolves and
\* whose area is strictly under 1% of that image; exactly 1% is not counted,
\* an unresolved annotation is never counted, whatever its bbox is.
C6_SmallObjects ==
    VisualRan =>
        visual_results[1].small_objects =
            Cardinality({i \in DOMAIN annotations :
                \E k \in DOMAIN images :
                    /\ FirstMatch(annotations[i], k)
                    /\ annotations[i].area * 100 <
                         images[k].width * images[k].height})

\* an annotation at exactly 1% is left out while one under 1% with a
\* malformed bbox is counted
C6_Witness ==
    /\ VisualRan
    /\ visual_results[1].small_objects = 1
    /\ \E i, j \in DOMAIN annotations :
          /\ \E k \in DOMAIN images :
                /\ FirstMatch(annotations[i], k)
                /\ annotations[i].area * 100 = images[k].width * images[k].height
          /\ Resolves(annotations[j])
          /\ ~HasBbox4(annotations[j])
          /\ annotations[j].area = 0

\* C7: images_without_annotations is the number of images that no annotation
\* references; an image referenced only by an annotation with a malformed
\* bbox is excluded.
C7_ImagesWithoutAnnotations ==
    VisualRan =>
        visual_results[1].images_without_annotations =
            Cardinality({k \in DOMAIN images :
                \A i \in DOMAIN annotations :
                    annotations[i].image_id # images[k].id})

\* one image referenced only by a malformed annotation, one image
\* unreferenced
C7_Witness ==
    /\ VisualRan
    /\ visual_results[1].images_without_annotations = 1
    /\ Len(images) = 2
    /\ annotations # <<>>
    /\ \A i \in DOMAIN annotations :
          ~HasBbox4(annotations[i]) /\ annotations[i].image_id = images[1].id

\* the number of rows of each intent, from the rows themselves
IntentGroup(v) == Cardinality({i \in DOMAIN rows : rows[i]["intent"] = v})

Intents == {rows[i]["intent"] : i \in DOMAIN rows} \ {NA}

\* C8: class imbalance is flagged iff the largest intent group is more than
\* 3 times the smallest; a ratio of exactly 3 prints "Balanced distribution".
C8_ImbalanceIffOver3 ==
    (TextCalled /\ text_out.imbalance # None /\ Intents # {}) =>
        (text_out.imbalance[1] = "Class imbalance detected"
            <=> \E a, b \in Intents :
                   /\ \A v \in Intents : IntentGroup(v) <= IntentGroup(a)
                   /\ \A v \in Intents : IntentGroup(b) <= IntentGroup(v)
                   /\ IntentGroup(a) > 3 * IntentGroup(b))

\* intents [a, a, a, a, b] are flagged
C8_Witness ==
    /\ TextCalled
    /\ [i \in DOMAIN rows |-> rows[i]["intent"]] = <<"a", "a", "a", "a", "b">>
    /\ text_out.imbalance = Some("Class imbalance detected")

\* C9: whatever the visual validator does (summary, None, raises), the text
\* validator is called afterwards and the run reaches its final step; a
\* visual summary once obtained is kept and is reported whatever the text
\* validator does.
C9_ErrorIsolation ==
    /\ <>(pc = "text")
    /\ <>(pc = "done" /\ reported.complete)
    /\ [][visual_results # None => visual_results' = visual_results]_vars
    /\ [](pc = "done" =>
            (reported.visual <=>
                visual_file.status \notin
                    {"FileNotFoundError", "JSONDecodeError", "OSError"}))

\* the visual validator raised, the text validator raised too, and the run
\* is complete
C9_Witness ==
    /\ pc = "done"
    /\ caught.visual
    /\ caught.text
    /\ reported.complete

\* a visual summary reported after the text validator raised
C9_WitnessKept ==
    /\ pc = "done"
    /\ caught.text
    /\ reported.visual

\* C10: an annotation with a 4-component bbox gets "Bbox exceeds image
\* bounds" iff its image resolves and x+w > width or y+h > height of the
\* first image in sequence with its image_id; x+w = width and y+h = height
\* is no issue.
C10_ExceedsBoundsFirstMatch ==
    VisualRan =>
        \A i \in DOMAIN annotations :
            HasBbox4(annotations[i]) =>
                (IssueCount("Bbox exceeds image bounds", annotations[i]) >= 1
                    <=> \E k \in DOMAIN images :
                          /\ FirstMatch(annotations[i], k)
                          /\ \/ annotations[i].bbox[1] + annotations[i].bbox[3]
                                  > images[k].width
                             \/ annotations[i].bbox[2] + annotations[i].bbox[4]
                                  > images[k].height)

\* two images share an id; one annotation fits the first but not the second
\* and is not reported, another touches both edges exactly and is not
\* reported
C10_Witness ==
    /\ VisualRan
    /\ Len(images) = 2
    /\ images[1].id = images[2].id
    /\ images[1].height > images[2].height
    /\ \E i, j \in DOMAIN annotations :
          /\ HasBbox4(annotations[i])
          /\ annotations[i].image_id = images[1].id
          /\ annotations[i].bbox[2] + annotations[i].bbox[4] > images[2].height
          /\ IssueCount("Bbox exceeds image bounds", annotations[i]) = 0
          /\ HasBbox4(annotations[j])
          /\ annotations[j].image_id = images[1].id
          /\ annotations[j].bbox[1] + annotations[j].bbox[3] = images[1].width
          /\ IssueCount("Bbox exceeds image bounds", annotations[j]) = 0
          /\ i # j

====
